---- MODULE Spec2Model ----
(***************************************************************************)
(* Model of the research aggregation core of Multimodal-DeepResearcher:    *)
(* ResearchAgent.process (src/src/agents/researcher.py) with its query     *)
(* planner, the semaphore-bounded fan-out over queries x sources, the URL  *)
(* deduplication pass, the LLM relevance ranker and the synthesis call.    *)
(*                                                                         *)
(* Conventions.  A URL is a natural number, 0 standing for the empty       *)
(* string '' (the only falsy URL).  A record title is a number that names  *)
(* the record.  A query string is a sequence of characters.  An LLM        *)
(* response is the sequence of pieces its split() produces.                *)
(***************************************************************************)
EXTENDS Integers, Sequences, FiniteSets, TLC

\* ---------------------------------------------------------------- bounds
\* concurrent_requests ranges over 1..MaxLimit
MaxLimit == 2
\* the deduplication pass is explored on every record sequence up to MaxLen
MaxLen == 3
\* URLs of the explored record sequences range over 0..MaxUrl (0 is '')
MaxUrl == 2

\* ------------------------------------------------------ program constants
\* queries[:7]
MaxQueries == 7
\* source.search(query, max_results=5)
MaxResults == 5
\* if len(unique_results) > 10
RankThreshold == 10
\* results[:15] in _synthesize_research
SynthesisLimit == 15

\* ---------------------------------------------------------------- helpers
Min(a, b) == IF a < b THEN a ELSE b

Range(s) == {s[i] : i \in 1..Len(s)}

\* s[:n] of Python for n >= 0
Take(s, n) == SubSeq(s, 1, Min(n, Len(s)))

\* list.extend over a list of lists, in list order
RECURSIVE Flatten(_)
Flatten(lists) ==
    IF lists = <<>> THEN <<>>
    ELSE Head(lists) \o Flatten(Tail(lists))

\* -------------------------------------------------------------- exceptions
\* the outcome of an awaited call: it returned val, it raised, or it has not
\* finished yet
Ok(v) == [kind |-> "ok", val |-> v]
Raised == [kind |-> "raise", val |-> <<>>]
Pending == [kind |-> "pending", val |-> <<>>]

\* ------------------------------------------------------------ query planner
Topic == <<"t">>

\* str.strip(): drop leading and trailing blanks
RECURSIVE LStrip(_)
LStrip(s) ==
    IF s # <<>> /\ Head(s) = " " THEN LStrip(Tail(s)) ELSE s

RECURSIVE RStrip(_)
RStrip(s) ==
    IF s # <<>> /\ s[Len(s)] = " " THEN RStrip(SubSeq(s, 1, Len(s) - 1)) ELSE s

Strip(s) == RStrip(LStrip(s))

\* [q.strip() for q in response.split('\n') if q.strip()]
RECURSIVE StripLines(_)
StripLines(lines) ==
    IF lines = <<>> THEN <<>>
    ELSE IF Strip(Head(lines)) # <<>>
         THEN <<Strip(Head(lines))>> \o StripLines(Tail(lines))
         ELSE StripLines(Tail(lines))

\* _generate_search_queries after the LLM returned `lines`
GenerateSearchQueries(topic, lines) ==
    LET queries == StripLines(lines)
        withTopic == IF topic \notin Range(queries)
                     THEN <<topic>> \o queries
                     ELSE queries
    IN  Take(withTopic, MaxQueries)

\* the expansion responses explored in the full run (split at '\n')
PlanResponses ==
    { <<>>,
      << <<"a">> >>,
      << <<" ", "a", " ">>, <<" ">> >> }

\* ------------------------------------------------------------------ sources
\* os.getenv gives None, '' or a non-empty string
EnvValues == {"None", "", "set"}

\* the environments explored in the full run
Environments ==
    { [GOOGLE_API_KEY |-> "set", GOOGLE_CSE_ID |-> "set"],
      [GOOGLE_API_KEY |-> "set", GOOGLE_CSE_ID |-> ""],
      [GOOGLE_API_KEY |-> "None", GOOGLE_CSE_ID |-> "set"],
      [GOOGLE_API_KEY |-> "None", GOOGLE_CSE_ID |-> "None"] }

\* a test for `is not None` in place of truthiness
TruthyNotNone(v) == v # "None"

\* `if google_api_key and google_cse_id`: None and '' are falsy
Truthy(v) == v # "None" /\ v # ""

\* _initialize_sources: the adapters in list order
InitializeSources(google_api_key, google_cse_id) ==
    (IF Truthy(google_api_key) /\ Truthy(google_cse_id)
     THEN <<"google">> ELSE <<>>) \o <<"arxiv", "wikipedia">>

\* tasks built by pairing the k-th query with the k-th source
BuildTasksPairwise(queries, srcs) ==
    [k \in 1..Min(Len(queries), Len(srcs)) |-> [qi |-> k, si |-> k]]

\* tasks of the nested loops: for query in search_queries: for source in sources
BuildTasks(queries, srcs) ==
    [k \in 1..(Len(queries) * Len(srcs)) |->
        [qi |-> ((k - 1) \div Len(srcs)) + 1,
         si |-> ((k - 1) % Len(srcs)) + 1]]

\* ------------------------------------------------------------------ records
\* the empty URL ''
NoUrl == 0

Rec(url, title, source) == [url |-> url, title |-> title, source |-> source]

\* what adapter.search(query, max_results=5) may do for task k of source src:
\* raise, return max_results records with URLs of their own, or return
\* records with empty URLs and one URL (repeated) that the source returns
\* for every query
FreshResults(k, src) ==
    [i \in 1..MaxResults |-> Rec(10 * k + i, 10 * k + i, src)]

MixedResults(k, si, src) ==
    << Rec(NoUrl, 10 * k + 1, src),
       Rec(100 + si, 10 * k + 2, src),
       Rec(100 + si, 10 * k + 3, src),
       Rec(NoUrl, 10 * k + 4, src) >>

AdapterOutcomes(k, si, src) ==
    {Raised, Ok(FreshResults(k, src)), Ok(MixedResults(k, si, src))}

\* _search_with_source: try: return await source.search(...) except: return []
SearchWithSourceNoCatch(out) == out

SearchWithSource(out) == IF out.kind = "raise" THEN Ok(<<>>) ELSE out

\* ----------------------------------------------------------- deduplication
\* if url and url not in seen_urls
KeepRecordAnyUrl(url, seen) == url # NoUrl

KeepRecord(url, seen) == url # NoUrl /\ url \notin seen

\* unique_results.append(result)
AppendUniqueFront(unique, result) == <<result>> \o unique

AppendUnique(unique, result) == Append(unique, result)

\* for result in results: ... (lines 130-134)
RECURSIVE DedupeLoop(_, _, _)
DedupeLoop(results, seen, unique) ==
    IF results = <<>> THEN unique
    ELSE LET result == Head(results)
             url == result.url
         IN  IF KeepRecord(url, seen)
             THEN DedupeLoop(Tail(results), seen \cup {url},
                             AppendUnique(unique, result))
             ELSE DedupeLoop(Tail(results), seen, unique)

\* a pass that removes the rejected records from the list it iterates over
RemoveFirst(lst, r) ==
    LET i == CHOOSE j \in 1..Len(lst) :
                 lst[j] = r /\ \A h \in 1..(j - 1) : lst[h] # r
    IN  SubSeq(lst, 1, i - 1) \o SubSeq(lst, i + 1, Len(lst))

RECURSIVE DedupeInPlaceLoop(_, _, _)
DedupeInPlaceLoop(lst, i, seen) ==
    IF i > Len(lst) THEN lst
    ELSE LET url == lst[i].url
         IN  IF KeepRecord(url, seen)
             THEN DedupeInPlaceLoop(lst, i + 1, seen \cup {url})
             ELSE DedupeInPlaceLoop(RemoveFirst(lst, lst[i]), i + 1, seen)

DedupeInPlace(results) == DedupeInPlaceLoop(results, 1, {})

\* the deduplication pass of _filter_and_rank_results (lines 126-134)
Dedupe(results) == DedupeLoop(results, {}, <<>>)

\* ------------------------------------------------------------------ ranker
\* a piece of response.split(','): a number, blanks only, or other text
Num(n) == [kind |-> "num", val |-> n]
Blank == [kind |-> "blank", val |-> 0]
Bad == [kind |-> "bad", val |-> 0]

\* [float(x.strip()) for x in response.split(',') if x.strip()]
RECURSIVE ParseScores(_)
ParseScores(pieces) ==
    IF pieces = <<>> THEN Ok(<<>>)
    ELSE LET x == Head(pieces)
             rest == ParseScores(Tail(pieces))
         IN  IF x.kind = "blank" THEN rest
             ELSE IF x.kind = "bad" \/ rest.kind = "raise" THEN Raised
             ELSE Ok(<<x.val>> \o rest.val)

\* list(zip(results, scores))
Zip(results, scores) ==
    [i \in 1..Min(Len(results), Len(scores)) |->
        [result |-> results[i], score |-> scores[i]]]

\* the sort leaves an element behind the elements whose score is not below its own
ScoreAbove(a, b) == a > b

ScoreNotBelow(a, b) == a >= b

\* scored_results.sort(key=lambda x: x[1], reverse=True): stable, descending
RECURSIVE InsertDesc(_, _)
InsertDesc(sorted, p) ==
    IF sorted = <<>> THEN <<p>>
    ELSE IF ScoreNotBelow(Head(sorted).score, p.score)
         THEN <<Head(sorted)>> \o InsertDesc(Tail(sorted), p)
         ELSE <<p>> \o sorted

RECURSIVE SortDescFrom(_, _)
SortDescFrom(pairs, sorted) ==
    IF pairs = <<>> THEN sorted
    ELSE SortDescFrom(Tail(pairs), InsertDesc(sorted, Head(pairs)))

SortDesc(pairs) == SortDescFrom(pairs, <<>>)

\* the try block of _rank_results_by_relevance (lines 171-178) once the
\* scoring call returned `response` (Raised when the call failed)
RankTry(results, response) ==
    IF response.kind = "raise" THEN Raised
    ELSE LET scores == ParseScores(response.val)
         IN  IF scores.kind = "raise" THEN Raised
             ELSE LET scored_results == SortDesc(Zip(results, scores.val))
                  IN  Ok([i \in 1..Len(scored_results) |-> scored_results[i].result])

\* _rank_results_by_relevance: except Exception: return results
RankResultsByRelevance(results, response) ==
    LET ranked == RankTry(results, response)
    IN  IF ranked.kind = "raise" THEN results ELSE ranked.val

\* what `await self._rank_results_by_relevance(...)` gives its caller
RankCallNoHandler(results, response) == RankTry(results, response)

RankCall(results, response) == Ok(RankResultsByRelevance(results, response))

\* if len(unique_results) > 10
NeedsRankingFromThreshold(unique) == Len(unique) >= RankThreshold

NeedsRanking(unique) == Len(unique) > RankThreshold

\* ranked_results[-self.max_sources:]
CapRankedTail(ranked_results, cap) ==
    SubSeq(ranked_results, Len(ranked_results) - Min(cap, Len(ranked_results)) + 1,
           Len(ranked_results))

\* ranked_results[:self.max_sources]
CapRanked(ranked_results, cap) == Take(ranked_results, cap)

\* the scoring responses explored for n records
Ascending(k) == [i \in 1..k |-> Num(i)]
Ties(k) == [i \in 1..k |-> Num(i % 2)]

ScoreResponses(n) ==
    { Ok(p) : p \in
        UNION { {Ascending(k), Ties(k)} : k \in {n - 1, n, n + 1} }
        \cup { Ascending(n) \o <<Blank>>, <<Num(1), Bad>> } }
    \cup {Raised}

\* ---------------------------------------------------------------- aggregate
\* a synthesis prompt built from every record
SynthesisInputUncut(results) == results

\* _synthesize_research line 190: for r in results[:15]
SynthesisInput(results) == Take(results, SynthesisLimit)

\* a count with an entry for every adapter, present in the results or not
CountSourcesEveryAdapter(results) ==
    [s \in {"google", "arxiv", "wikipedia"} |->
        Cardinality({i \in 1..Len(results) : results[i].source = s})]

\* _count_sources
CountSources(results) ==
    [s \in {results[i].source : i \in 1..Len(results)} |->
        Cardinality({i \in 1..Len(results) : results[i].source = s})]

\* --------------------------------------------------------------- semaphore
\* asyncio.Semaphore.locked(): no free slot, or somebody is already waiting
SemNeverLocked(value, waiters) == FALSE

SemLocked(value, waiters) == value = 0 \/ waiters # <<>>

\* a wait that returns with the first task that finishes
GatherReadyOnFirst(slots) ==
    \E k \in 1..Len(slots) : slots[k].kind # "pending"

\* await asyncio.gather(...): resumes when every awaitable has finished, or
\* at once when one of them raises
GatherReady(slots) ==
    \/ \A k \in 1..Len(slots) : slots[k].kind # "pending"
    \/ \E k \in 1..Len(slots) : slots[k].kind = "raise"

\* gather(): the result of the k-th awaitable goes to the k-th slot
StoreResultInCompletionOrder(slots, k, r) ==
    LET free == CHOOSE j \in 1..Len(slots) :
                    slots[j].kind = "pending"
                    /\ \A h \in 1..(j - 1) : slots[h].kind # "pending"
    IN  [slots EXCEPT ![free] = r]

StoreResult(slots, k, r) == [slots EXCEPT ![k] = r]

\* ------------------------------------------------------------------- state
\* the values of max_sources_per_query explored
CapValues == {3, 10, 12, 16}

VARIABLES
    pc,                  \* where process() is: plan, fanout, rank, synth, done, raised
    env,                 \* GOOGLE_API_KEY and GOOGLE_CSE_ID of the process environment
    concurrent_requests, \* config.research.concurrent_requests
    max_sources,         \* config.research.max_sources_per_query
    search_queries,      \* result of _generate_search_queries
    session,             \* the aiohttp.ClientSession: none, open, closed
    sources,             \* result of _initialize_sources
    tasks,               \* the (query, source) coroutines in creation order
    tstate,              \* per task: created, waiting, woken, running, done
    sem_value,           \* Semaphore._value
    sem_waiters,         \* Semaphore._waiters (FIFO)
    search_calls,        \* per task: number of source.search calls started
    adapter_out,         \* per task: what source.search did
    results,             \* the slots of asyncio.gather
    overtaken,           \* a task finished before one created earlier
    all_results,         \* flattened results
    unique_results,      \* output of the deduplication pass
    rank_response,       \* the scoring response the ranker received
    ranked_results,      \* return value of _rank_results_by_relevance
    filtered_results,    \* return value of _filter_and_rank_results
    synth_input,         \* the records given to the synthesis call
    aggregate,           \* the returned dict, <<>> while there is none
    llm_calls,           \* number of _make_llm_request calls issued, per purpose
    llm_failed,          \* the purposes whose _make_llm_request call raised
    report,              \* what generate_report returned, <<>> while it has not
    call,                \* the adapter search looked at on its own: source, max_results
    http,                \* what the network answers to that search
    style,               \* generate_report: the style argument
    stage_log,           \* generate_report: the stage events so far, in order
    topics,              \* batch: the topics read from the topics file
    concurrent           \* batch: args.concurrent

vars == <<pc, env, concurrent_requests, max_sources, search_queries, session,
          sources, tasks, tstate, sem_value, sem_waiters, search_calls,
          adapter_out, results, overtaken, all_results, unique_results,
          rank_response, ranked_results, filtered_results, synth_input, aggregate,
          llm_calls, llm_failed, report, call, http, style, stage_log, topics,
          concurrent>>

cfgVars == <<env, concurrent_requests, max_sources>>
fanVars == <<tstate, sem_value, sem_waiters, search_calls, adapter_out, results,
            overtaken>>
planVars == <<search_queries, sources, tasks>>
filterVars == <<all_results, unique_results, rank_response, ranked_results,
                filtered_results, synth_input>>

llmVars == <<llm_calls, llm_failed>>
adapterVars == <<call, http>>
pipeVars == <<style, stage_log>>
batchVars == <<topics, concurrent>>
sideVars == <<adapterVars, pipeVars, batchVars>>

\* no adapter search is looked at on its own
NoCall == [source |-> "none", max_results |-> 0]
NoHttp == [first |-> "none", items |-> <<>>]

NoCalls == [expand |-> 0, score |-> 0, synth |-> 0]

Issue(calls, purpose) == [calls EXCEPT ![purpose] = @ + 1]

TaskIds == 1..Len(tasks)

Running == {k \in TaskIds : tstate[k] = "running"}

Init ==
    /\ pc = "plan"
    /\ env \in Environments
    /\ concurrent_requests \in 1..MaxLimit
    /\ max_sources \in CapValues
    /\ search_queries = <<>>
    /\ session = "none"
    /\ sources = <<>>
    /\ tasks = <<>>
    /\ tstate = <<>>
    /\ sem_value = 0
    /\ sem_waiters = <<>>
    /\ search_calls = <<>>
    /\ adapter_out = <<>>
    /\ results = <<>>
    /\ overtaken = FALSE
    /\ all_results = <<>>
    /\ unique_results = <<>>
    /\ rank_response = Pending
    /\ ranked_results = <<>>
    /\ filtered_results = <<>>
    /\ synth_input = <<>>
    /\ aggregate = <<>>
    /\ llm_calls = Issue(NoCalls, "expand")
    /\ llm_failed = {}
    /\ report = <<>>
    /\ style = "none"
    /\ stage_log = <<>>
    /\ topics = <<>>
    /\ concurrent = 0
    /\ call = NoCall
    /\ http = NoHttp

\* ----------------------------------------------------------------- process
\* lines 21-42: the expansion call returned; the session is opened, the
\* sources and the tasks are created, and gather() schedules every task
PlanReturn(lines) ==
    /\ pc = "plan"
    /\ search_queries' = GenerateSearchQueries(Topic, lines)
    /\ session' = "open"
    /\ sources' = InitializeSources(env.GOOGLE_API_KEY, env.GOOGLE_CSE_ID)
    /\ tasks' = BuildTasks(search_queries', sources')
    /\ sem_value' = concurrent_requests
    /\ sem_waiters' = <<>>
    /\ tstate' = [k \in 1..Len(tasks') |-> "created"]
    /\ search_calls' = [k \in 1..Len(tasks') |-> 0]
    /\ adapter_out' = [k \in 1..Len(tasks') |-> Pending]
    /\ results' = [k \in 1..Len(tasks') |-> Pending]
    /\ overtaken' = FALSE
    /\ pc' = "fanout"
    /\ UNCHANGED <<cfgVars, sideVars, filterVars, aggregate, llmVars, report>>

\* line 21: _make_llm_request raised inside _generate_search_queries, which
\* has no handler, and neither has process
PlanFail ==
    /\ pc = "plan"
    /\ pc' = "raised"
    /\ llm_failed' = llm_failed \cup {"expand"}
    /\ UNCHANGED <<cfgVars, sideVars, planVars, session, fanVars, filterVars, aggregate,
                   llm_calls, report>>

\* bounded_search, first step: `async with semaphore`.  The event loop runs
\* the tasks gather() created in creation order.
BoundedSearchStart ==
    /\ \E k \in TaskIds :
        /\ tstate[k] = "created"
        /\ \A h \in 1..(k - 1) : tstate[h] # "created"
        /\ IF SemLocked(sem_value, sem_waiters)
           THEN /\ sem_waiters' = Append(sem_waiters, k)
                /\ tstate' = [tstate EXCEPT ![k] = "waiting"]
                /\ UNCHANGED <<sem_value, search_calls>>
           ELSE /\ sem_value' = sem_value - 1
                /\ tstate' = [tstate EXCEPT ![k] = "running"]
                /\ search_calls' = [search_calls EXCEPT ![k] = @ + 1]
                /\ UNCHANGED sem_waiters
    /\ UNCHANGED <<pc, cfgVars, sideVars, planVars, session, adapter_out, results,
                   overtaken, filterVars, aggregate, llmVars, report>>

\* bounded_search resumes from semaphore.acquire() once release() has set its
\* future, leaves the waiter list and awaits the search
BoundedSearchResume ==
    /\ sem_waiters # <<>>
    /\ tstate[Head(sem_waiters)] = "woken"
    /\ tstate' = [tstate EXCEPT ![Head(sem_waiters)] = "running"]
    /\ search_calls' = [search_calls EXCEPT ![Head(sem_waiters)] = @ + 1]
    /\ sem_waiters' = Tail(sem_waiters)
    /\ UNCHANGED <<pc, cfgVars, sideVars, planVars, session, sem_value, adapter_out,
                   results, overtaken, filterVars, aggregate, llmVars, report>>

\* a release that only adds to _value and wakes nobody
ReleaseWithoutWakeUp(state) ==
    /\ sem_value' = sem_value + 1
    /\ tstate' = state

\* Semaphore.release(): _value += 1, then _wake_up_next() hands the slot to
\* the first waiter whose future is not done
Release(state) ==
    LET pending == {i \in 1..Len(sem_waiters) : state[sem_waiters[i]] = "waiting"}
    IN  IF pending = {}
        THEN /\ sem_value' = sem_value + 1
             /\ tstate' = state
        ELSE LET first == CHOOSE i \in pending : \A j \in pending : i <= j
             IN  /\ sem_value' = sem_value
                 /\ tstate' = [state EXCEPT ![sem_waiters[first]] = "woken"]

\* source.search of task k returns or raises; _search_with_source turns it
\* into the task's result, the semaphore is released and gather() stores
\* the result
SearchFinish(k, out) ==
    /\ tstate[k] = "running"
    /\ adapter_out' = [adapter_out EXCEPT ![k] = out]
    /\ results' = StoreResult(results, k, SearchWithSource(out))
    /\ overtaken' = (overtaken \/ \E h \in 1..(k - 1) : tstate[h] # "done")
    /\ Release([tstate EXCEPT ![k] = "done"])
    /\ UNCHANGED <<pc, cfgVars, sideVars, planVars, session, sem_waiters, search_calls,
                   filterVars, aggregate, llmVars, report>>

\* _filter_and_rank_results up to its first await (lines 126-141) and, when
\* it returns without ranking, the start of _synthesize_research
BeginFilter(rs, next) ==
    /\ unique_results' = Dedupe(rs)
    /\ IF NeedsRanking(unique_results')
       THEN /\ pc' = "rank"
            /\ UNCHANGED filtered_results
       ELSE /\ pc' = next
            /\ filtered_results' = unique_results'

\* lines 42-52: gather() is done; the results are flattened, the session is
\* closed and _filter_and_rank_results is called.  gather() re-raises the
\* exception of a task that raised.
GatherResume ==
    /\ pc = "fanout"
    /\ GatherReady(results)
    /\ session' = "closed"
    /\ IF \E k \in TaskIds : results[k].kind = "raise"
       THEN /\ pc' = "raised"
            /\ UNCHANGED <<filterVars, llm_calls>>
       ELSE /\ all_results' = Flatten([k \in TaskIds |-> results[k].val])
            /\ BeginFilter(all_results', "synth")
            /\ synth_input' = IF pc' = "synth"
                              THEN SynthesisInput(filtered_results')
                              ELSE synth_input
            /\ llm_calls' = Issue(llm_calls, IF pc' = "rank" THEN "score" ELSE "synth")
            /\ UNCHANGED <<rank_response, ranked_results>>
    /\ UNCHANGED <<cfgVars, sideVars, planVars, fanVars, aggregate, llm_failed, report>>

\* lines 138-139 and 171-182: the scoring call returned or raised, the
\* ranker returns, the ranked list is capped and the synthesis call is issued
RankFinish(response) ==
    /\ pc = "rank"
    /\ rank_response' = response
    /\ llm_failed' = IF response.kind = "raise"
                     THEN llm_failed \cup {"score"} ELSE llm_failed
    /\ LET ranked == RankCall(unique_results, response)
       IN  IF ranked.kind = "raise"
           THEN /\ pc' = "raised"
                /\ UNCHANGED <<ranked_results, filtered_results, synth_input,
                               llm_calls>>
           ELSE /\ ranked_results' = ranked.val
                /\ filtered_results' = CapRanked(ranked_results', max_sources)
                /\ synth_input' = SynthesisInput(filtered_results')
                /\ llm_calls' = Issue(llm_calls, "synth")
                /\ pc' = "synth"
    /\ UNCHANGED <<cfgVars, sideVars, planVars, session, fanVars, all_results,
                   unique_results, aggregate, report>>

\* lines 52-61: the synthesis call returned and process returns the dict
SynthReturn ==
    /\ pc = "synth"
    /\ aggregate' = << [topic |-> Topic,
                        search_queries |-> search_queries,
                        raw_results |-> filtered_results,
                        synthesis |-> "text",
                        source_count |-> Len(filtered_results),
                        sources_breakdown |-> CountSources(filtered_results)] >>
    /\ pc' = "done"
    /\ UNCHANGED <<cfgVars, sideVars, planVars, session, fanVars, filterVars, llmVars,
                   report>>

\* line 213: the synthesis call raised; nothing catches it
SynthFail ==
    /\ pc = "synth"
    /\ pc' = "raised"
    /\ llm_failed' = llm_failed \cup {"synth"}
    /\ UNCHANGED <<cfgVars, sideVars, planVars, session, fanVars, filterVars, aggregate,
                   llm_calls, report>>

\* pipeline.py lines 57-64: the handler of generate_report
ReportOnErrorAsSuccess(e) == [success |-> TRUE, error |-> ""]

ReportOnError(e) == [success |-> FALSE, error |-> e]

\* base.py line 26: the exception of a failed _make_llm_request
LlmError == "LLM request failed"

\* pipeline.py lines 31 and 57-64: process raised inside the try block of
\* generate_report, whose handler returns the failure result
ReportFailure ==
    /\ pc = "raised"
    /\ report = <<>>
    /\ report' = <<ReportOnError(LlmError)>>
    /\ UNCHANGED <<pc, cfgVars, sideVars, planVars, session, fanVars, filterVars, aggregate,
                   llmVars>>

Next ==
    \/ \E lines \in PlanResponses : PlanReturn(lines)
    \/ PlanFail
    \/ BoundedSearchStart
    \/ BoundedSearchResume
    \/ \E k \in TaskIds :
         \E out \in AdapterOutcomes(k, tasks[k].si, sources[tasks[k].si]) :
           SearchFinish(k, out)
    \/ GatherResume
    \/ \E response \in ScoreResponses(Len(unique_results)) : RankFinish(response)
    \/ SynthReturn
    \/ SynthFail
    \/ ReportFailure

Spec == Init /\ [][Next]_vars

\* ------------------------------------------- the deduplication pass alone
\* config.py defaults
DefaultMaxSources == 10
DefaultConcurrentRequests == 3

\* the titles of the explored record sequences
Titles == {1, 2}

RecordsUpTo(n) ==
    UNION { [1..m -> [url : 0..MaxUrl, title : Titles, source : {"arxiv"}]] :
            m \in 0..n }

\* _filter_and_rank_results is about to be called on any record sequence
InitDedupe ==
    /\ pc = "filter"
    /\ all_results \in RecordsUpTo(MaxLen)
    /\ env = [GOOGLE_API_KEY |-> "None", GOOGLE_CSE_ID |-> "None"]
    /\ concurrent_requests = DefaultConcurrentRequests
    /\ max_sources = DefaultMaxSources
    /\ search_queries = <<>>
    /\ session = "none"
    /\ sources = <<>>
    /\ tasks = <<>>
    /\ tstate = <<>>
    /\ sem_value = 0
    /\ sem_waiters = <<>>
    /\ search_calls = <<>>
    /\ adapter_out = <<>>
    /\ results = <<>>
    /\ overtaken = FALSE
    /\ unique_results = <<>>
    /\ rank_response = Pending
    /\ ranked_results = <<>>
    /\ filtered_results = <<>>
    /\ synth_input = <<>>
    /\ aggregate = <<>>
    /\ llm_calls = NoCalls
    /\ llm_failed = {}
    /\ report = <<>>
    /\ style = "none"
    /\ stage_log = <<>>
    /\ topics = <<>>
    /\ concurrent = 0
    /\ call = NoCall
    /\ http = NoHttp

\* lines 126-141 on all_results
FilterCall ==
    /\ pc = "filter"
    /\ BeginFilter(all_results, "filtered")
    /\ llm_calls' = IF pc' = "rank" THEN Issue(llm_calls, "score") ELSE llm_calls
    /\ UNCHANGED <<cfgVars, sideVars, planVars, session, fanVars, all_results,
                   rank_response, ranked_results, synth_input, aggregate,
                   llm_failed, report>>

NextDedupe == FilterCall

SpecDedupe == InitDedupe /\ [][NextDedupe]_vars

\* ------------------------------------------------------ the planner alone
\* an expansion response has at most MaxLines lines
MaxLines == 8

\* the lines of the explored expansion responses: the topic, another query
\* with blanks around it, and a line of blanks
PlanLines == { <<"t">>, <<" ", "a", " ">>, <<" ">> }

LinesUpTo(n) == UNION { [1..m -> PlanLines] : m \in 0..n }

\* _generate_search_queries(topic) awaits the expansion call
InitPlan ==
    /\ pc = "expand"
    /\ env = [GOOGLE_API_KEY |-> "None", GOOGLE_CSE_ID |-> "None"]
    /\ concurrent_requests = DefaultConcurrentRequests
    /\ max_sources = DefaultMaxSources
    /\ search_queries = <<>>
    /\ session = "none"
    /\ sources = <<>>
    /\ tasks = <<>>
    /\ tstate = <<>>
    /\ sem_value = 0
    /\ sem_waiters = <<>>
    /\ search_calls = <<>>
    /\ adapter_out = <<>>
    /\ results = <<>>
    /\ overtaken = FALSE
    /\ all_results = <<>>
    /\ unique_results = <<>>
    /\ rank_response = Pending
    /\ ranked_results = <<>>
    /\ filtered_results = <<>>
    /\ synth_input = <<>>
    /\ aggregate = <<>>
    /\ llm_calls = Issue(NoCalls, "expand")
    /\ llm_failed = {}
    /\ report = <<>>
    /\ style = "none"
    /\ stage_log = <<>>
    /\ topics = <<>>
    /\ concurrent = 0
    /\ call = NoCall
    /\ http = NoHttp

\* lines 88-95: the expansion call returned `lines`
PlannerReturn(lines) ==
    /\ pc = "expand"
    /\ search_queries' = GenerateSearchQueries(Topic, lines)
    /\ pc' = "planned"
    /\ UNCHANGED <<cfgVars, sideVars, sources, tasks, session, fanVars, filterVars,
                   aggregate, llmVars, report>>

\* line 88: the expansion call raised; the planner has no handler
PlannerFail ==
    /\ pc = "expand"
    /\ pc' = "raised"
    /\ llm_failed' = llm_failed \cup {"expand"}
    /\ UNCHANGED <<cfgVars, sideVars, planVars, session, fanVars, filterVars, aggregate,
                   llm_calls, report>>

NextPlan ==
    \/ \E lines \in LinesUpTo(MaxLines) : PlannerReturn(lines)
    \/ PlannerFail

SpecPlan == InitPlan /\ [][NextPlan]_vars

\* ----------------------------------------------------- the adapters alone
\* the network answers a search with at most MaxItems items (search hits,
\* feed entries, candidate titles)
MaxItems == 3

\* How the first request of a search ends: session.get raises, the status
\* is not 200, the body does not parse (json() or ET.fromstring raises), the
\* body parses to another shape than expected, or the body is well formed.
FirstKinds == {"neterror", "status", "unparsable", "malformed", "ok"}

\* What the i-th item of a well-formed body is like:
\*   ok         a complete item
\*   nourl      an item without link / <id> / content_urls
\*   skip       arxiv: an entry without <title> or <summary>;
\*              wikipedia: the summary request answers with a status other than 200
\*   fetcherror wikipedia: the summary request raises or its body does not parse
\*   broken     google: an item that is not an object; arxiv: a <title/>
\*              without text; wikipedia: a title that is not a string
ItemKinds(source) ==
    IF source = "google" THEN {"ok", "nourl", "broken"}
    ELSE IF source = "arxiv" THEN {"ok", "nourl", "skip", "broken"}
    ELSE {"ok", "nourl", "skip", "fetcherror", "broken"}

\* the record an adapter builds from the i-th item
ItemRecord(source, kind, i) ==
    Rec(IF kind = "nourl" THEN NoUrl ELSE i, i, source)

\* the running state of a search: its results list and whether an exception
\* has left the try block
Going(rs) == [results |-> rs, raised |-> FALSE]
Broke(rs) == [results |-> rs, raised |-> TRUE]

\* GoogleSearchSource.search lines 43-49: for item in data.get('items', [])
RECURSIVE GoogleItems(_, _, _)
GoogleItems(items, i, rs) ==
    IF i > Len(items) THEN Going(rs)
    ELSE IF items[i] = "broken" THEN Broke(rs)
    ELSE GoogleItems(items, i + 1, Append(rs, ItemRecord("google", items[i], i)))

\* GoogleSearchSource.search lines 31-49: the try block
GoogleTry(h) ==
    IF h.first = "neterror" THEN Broke(<<>>)
    ELSE IF h.first = "status" THEN Going(<<>>)
    ELSE IF h.first \in {"unparsable", "malformed"} THEN Broke(<<>>)
    ELSE GoogleItems(h.items, 1, <<>>)

\* GoogleSearchSource.search: except Exception: print; return results
GoogleSearch(h) == Ok(GoogleTry(h).results)

\* ArxivSource.search lines 82-93: for entry in root.findall(...)
RECURSIVE ArxivEntries(_, _, _)
ArxivEntries(items, i, rs) ==
    IF i > Len(items) THEN Going(rs)
    ELSE IF items[i] = "broken" THEN Broke(rs)
    ELSE IF items[i] = "skip" THEN ArxivEntries(items, i + 1, rs)
    ELSE ArxivEntries(items, i + 1, Append(rs, ItemRecord("arxiv", items[i], i)))

\* ArxivSource.search lines 67-93: the try block; a well-formed XML document
\* of another shape has no Atom entries
ArxivTry(h) ==
    IF h.first = "neterror" THEN Broke(<<>>)
    ELSE IF h.first = "status" THEN Going(<<>>)
    ELSE IF h.first = "unparsable" THEN Broke(<<>>)
    ELSE IF h.first = "malformed" THEN Going(<<>>)
    ELSE ArxivEntries(h.items, 1, <<>>)

\* a search without the except clause
ArxivSearchNoHandler(h) ==
    IF ArxivTry(h).raised THEN Raised ELSE Ok(ArxivTry(h).results)

\* ArxivSource.search: except Exception: print; return results
ArxivSearch(h) == Ok(ArxivTry(h).results)

\* WikipediaSource.search lines 127-142: for title in titles[:max_results];
\* the inner try/except skips a candidate whose summary request fails
RECURSIVE WikipediaTitles(_, _, _)
WikipediaTitles(titles, i, rs) ==
    IF i > Len(titles) THEN Going(rs)
    ELSE IF titles[i] = "broken" THEN Broke(rs)
    ELSE IF titles[i] \in {"skip", "fetcherror"}
         THEN WikipediaTitles(titles, i + 1, rs)
    ELSE WikipediaTitles(titles, i + 1,
                         Append(rs, ItemRecord("wikipedia", titles[i], i)))

\* the candidates whose summary is requested, in request order: the loop
\* builds the summary URL of a title before it enters the inner try, so it
\* ends at a title quote_plus rejects
RECURSIVE WikipediaFetched(_, _, _)
WikipediaFetched(titles, i, fetched) ==
    IF i > Len(titles) \/ titles[i] = "broken" THEN fetched
    ELSE WikipediaFetched(titles, i + 1, Append(fetched, i))

\* an outer try block whose loop has no inner try/except: the first summary
\* request that fails ends the search
WikipediaTryNoInnerHandler(h, max_results) ==
    IF h.first = "neterror" THEN Broke(<<>>)
    ELSE IF h.first = "status" THEN Going(<<>>)
    ELSE IF h.first \in {"unparsable", "malformed"} THEN Broke(<<>>)
    ELSE LET titles == Take(h.items, max_results)
             failing == {i \in 1..Len(titles) : titles[i] = "fetcherror"}
             first == CHOOSE i \in failing : \A j \in failing : i <= j
         IN  IF failing = {} THEN WikipediaTitles(titles, 1, <<>>)
             ELSE Broke(WikipediaTitles(Take(titles, first - 1), 1, <<>>).results)

\* WikipediaSource.search lines 111-142: the outer try block
WikipediaTry(h, max_results) ==
    IF h.first = "neterror" THEN Broke(<<>>)
    ELSE IF h.first = "status" THEN Going(<<>>)
    ELSE IF h.first \in {"unparsable", "malformed"} THEN Broke(<<>>)
    ELSE WikipediaTitles(Take(h.items, max_results), 1, <<>>)

\* WikipediaSource.search: except Exception: print; return results
WikipediaSearch(h, max_results) == Ok(WikipediaTry(h, max_results).results)

\* source.search(query, max_results) of the adapter named in the call
Search(c, h) ==
    IF c.source = "google" THEN GoogleSearch(h)
    ELSE IF c.source = "arxiv" THEN ArxivSearch(h)
    ELSE WikipediaSearch(h, c.max_results)

\* whether an exception left the try block of that search
SearchBroke(c, h) ==
    IF c.source = "google" THEN GoogleTry(h).raised
    ELSE IF c.source = "arxiv" THEN ArxivTry(h).raised
    ELSE WikipediaTry(h, c.max_results).raised

\* the max_results values explored: below MaxItems, and the one process uses
CallLimits == {MaxItems - 1, MaxResults}

HttpAnswers(source) ==
    { [first |-> f, items |-> <<>>] : f \in FirstKinds \ {"ok"} }
    \cup { [first |-> "ok", items |-> items] :
             items \in UNION { [1..m -> ItemKinds(source)] : m \in 0..MaxItems } }

\* one adapter is about to search, whatever the network will answer
InitAdapters ==
    /\ pc = "search"
    /\ call \in [source : {"google", "arxiv", "wikipedia"}, max_results : CallLimits]
    /\ http \in HttpAnswers(call.source)
    /\ adapter_out = <<Pending>>
    /\ env = [GOOGLE_API_KEY |-> "set", GOOGLE_CSE_ID |-> "set"]
    /\ concurrent_requests = DefaultConcurrentRequests
    /\ max_sources = DefaultMaxSources
    /\ search_queries = <<>>
    /\ session = "open"
    /\ sources = <<>>
    /\ tasks = <<>>
    /\ tstate = <<>>
    /\ sem_value = 0
    /\ sem_waiters = <<>>
    /\ search_calls = <<>>
    /\ results = <<>>
    /\ overtaken = FALSE
    /\ all_results = <<>>
    /\ unique_results = <<>>
    /\ rank_response = Pending
    /\ ranked_results = <<>>
    /\ filtered_results = <<>>
    /\ synth_input = <<>>
    /\ aggregate = <<>>
    /\ llm_calls = NoCalls
    /\ llm_failed = {}
    /\ report = <<>>
    /\ style = "none"
    /\ stage_log = <<>>
    /\ topics = <<>>
    /\ concurrent = 0

\* the search runs to its end
AdapterSearch ==
    /\ pc = "search"
    /\ adapter_out' = <<Search(call, http)>>
    /\ pc' = "searched"
    /\ UNCHANGED <<cfgVars, sideVars, planVars, session, tstate, sem_value,
                   sem_waiters, search_calls, results, overtaken, filterVars,
                   aggregate, llmVars, report>>

NextAdapters == AdapterSearch

SpecAdapters == InitAdapters /\ [][NextAdapters]_vars

\* ------------------------------------------------ sources and tasks alone
\* every environment os.getenv can show to _initialize_sources
AllEnvironments == [GOOGLE_API_KEY : EnvValues, GOOGLE_CSE_ID : EnvValues]

\* the query sets the planner can hand over: one to MaxQueries stripped,
\* non-empty strings; a set shorter than MaxQueries holds the topic
QuerySets ==
    { q \in UNION { [1..n -> {Topic, <<"a">>}] : n \in 1..MaxQueries } :
        Topic \in Range(q) \/ Len(q) = MaxQueries }

\* process at line 25: the query set is there and the session is open
InitSources ==
    /\ pc = "sources"
    /\ env \in AllEnvironments
    /\ search_queries \in QuerySets
    /\ session = "open"
    /\ concurrent_requests = DefaultConcurrentRequests
    /\ max_sources = DefaultMaxSources
    /\ sources = <<>>
    /\ tasks = <<>>
    /\ tstate = <<>>
    /\ sem_value = 0
    /\ sem_waiters = <<>>
    /\ search_calls = <<>>
    /\ adapter_out = <<>>
    /\ results = <<>>
    /\ overtaken = FALSE
    /\ all_results = <<>>
    /\ unique_results = <<>>
    /\ rank_response = Pending
    /\ ranked_results = <<>>
    /\ filtered_results = <<>>
    /\ synth_input = <<>>
    /\ aggregate = <<>>
    /\ llm_calls = NoCalls
    /\ llm_failed = {}
    /\ report = <<>>
    /\ style = "none"
    /\ stage_log = <<>>
    /\ topics = <<>>
    /\ concurrent = 0
    /\ call = NoCall
    /\ http = NoHttp

\* lines 26-34: the sources are created and one task is built per
\* (query, source) pair
CreateSourcesAndTasks ==
    /\ pc = "sources"
    /\ sources' = InitializeSources(env.GOOGLE_API_KEY, env.GOOGLE_CSE_ID)
    /\ tasks' = BuildTasks(search_queries, sources')
    /\ pc' = "tasked"
    /\ UNCHANGED <<cfgVars, sideVars, search_queries, session, fanVars,
                   filterVars, aggregate, llmVars, report>>

NextSources == CreateSourcesAndTasks

SpecSources == InitSources /\ [][NextSources]_vars

\* ------------------------------------------------- the fan-out, scheduled
\* how an adapter call ends when only the gate is looked at: it returns a
\* list or it raises
FanoutOutcomes == {Ok(<<>>), Raised}

\* process up to the end of the fan-out (lines 21-46)
NextFanout ==
    \/ \E lines \in PlanResponses : PlanReturn(lines)
    \/ BoundedSearchStart
    \/ BoundedSearchResume
    \/ \E k \in TaskIds : \E out \in FanoutOutcomes : SearchFinish(k, out)
    \/ GatherResume

\* The event loop runs every task that is ready (its ready queue is first
\* in, first out), so a coroutine that can take its next step takes it; and
\* every adapter call that was started returns or raises.
FanoutFairness ==
    /\ WF_vars(BoundedSearchStart)
    /\ WF_vars(BoundedSearchResume)
    /\ WF_vars(GatherResume)
    /\ \A k \in 1..(MaxQueries * 3) :
          WF_vars(k \in TaskIds /\ \E out \in FanoutOutcomes : SearchFinish(k, out))

\* a run of process under the default cap
InitFanout == Init /\ max_sources = DefaultMaxSources

SpecFanout == InitFanout /\ [][NextFanout]_vars /\ FanoutFairness

\* ------------------------------------------------- generate_report alone
\* the stages of generate_report in the order of its try block
Stages == <<"research", "planning", "visualization", "generation">>

\* the values of the style argument
Styles == {"academic", "business", "casual"}

\* the texts str(e) of the exceptions a stage raises: the one of a failed
\* LLM request, another one, and the empty text of an exception without
\* arguments
StageErrors == {LlmError, "other", ""}

\* str(e) of the KeyError of a log line that reads a missing key
KeyError == "key"

\* a stage order with planning and visualization exchanged
StageAfterSwapped(stage) ==
    IF stage = "research" THEN "visualization"
    ELSE IF stage = "visualization" THEN "planning"
    ELSE IF stage = "planning" THEN "generation"
    ELSE "results"

\* what the try block does after the log line of a stage: lines 34, 37, 40
\* await the next stage, line 43 builds the results
StageAfter(stage) ==
    IF stage = "research" THEN "planning"
    ELSE IF stage = "planning" THEN "visualization"
    ELSE IF stage = "visualization" THEN "generation"
    ELSE "results"

Event(stage, event, error) == [stage |-> stage, event |-> event, error |-> error]

\* lines 43-56: the results dictionary of a complete run
ReportOnSuccess(s) == [success |-> TRUE, style |-> s]

\* generate_report at line 31: the style is set and research is awaited
InitPipeline ==
    /\ pc = "research"
    /\ style \in Styles
    /\ stage_log = <<Event("research", "start", "")>>
    /\ report = <<>>
    /\ env = [GOOGLE_API_KEY |-> "set", GOOGLE_CSE_ID |-> "set"]
    /\ concurrent_requests = DefaultConcurrentRequests
    /\ max_sources = DefaultMaxSources
    /\ search_queries = <<>>
    /\ session = "none"
    /\ sources = <<>>
    /\ tasks = <<>>
    /\ tstate = <<>>
    /\ sem_value = 0
    /\ sem_waiters = <<>>
    /\ search_calls = <<>>
    /\ adapter_out = <<>>
    /\ results = <<>>
    /\ overtaken = FALSE
    /\ all_results = <<>>
    /\ unique_results = <<>>
    /\ rank_response = Pending
    /\ ranked_results = <<>>
    /\ filtered_results = <<>>
    /\ synth_input = <<>>
    /\ aggregate = <<>>
    /\ llm_calls = NoCalls
    /\ llm_failed = {}
    /\ call = NoCall
    /\ http = NoHttp
    /\ topics = <<>>
    /\ concurrent = 0

pipelineRest == <<cfgVars, adapterVars, batchVars, planVars, session, fanVars,
                  filterVars, aggregate, llmVars, style>>

\* lines 31, 34, 37, 40: the awaited stage returned
StageReturn ==
    /\ pc \in Range(Stages)
    /\ stage_log' = Append(stage_log, Event(pc, "return", ""))
    /\ pc' = "log"
    /\ UNCHANGED <<pipelineRest, report>>

\* lines 31, 34, 37, 40: the awaited stage raised
StageRaise(e) ==
    /\ pc \in Range(Stages)
    /\ stage_log' = Append(stage_log, Event(pc, "raise", e))
    /\ pc' = "handler"
    /\ UNCHANGED <<pipelineRest, report>>

\* lines 32, 35, 38, 41 and what follows: the log line reads a key of the
\* stage's result; then the next stage is awaited or the results are
\* returned
StageLogged ==
    /\ pc = "log"
    /\ LET stage == stage_log[Len(stage_log)].stage
           next == StageAfter(stage)
       IN  IF next = "results"
           THEN /\ report' = <<ReportOnSuccess(style)>>
                /\ pc' = "returned"
                /\ UNCHANGED stage_log
           ELSE /\ stage_log' = Append(stage_log, Event(next, "start", ""))
                /\ pc' = next
                /\ UNCHANGED report
    /\ UNCHANGED pipelineRest

\* lines 32, 35, 38, 41: the result of the stage lacks the key the log line
\* reads
StageLogRaise ==
    /\ pc = "log"
    /\ stage_log' = Append(stage_log,
                           Event(stage_log[Len(stage_log)].stage, "lograise", KeyError))
    /\ pc' = "handler"
    /\ UNCHANGED <<pipelineRest, report>>

\* lines 57-64: except Exception as e returns the failure result
HandleError ==
    /\ pc = "handler"
    /\ report' = <<ReportOnError(stage_log[Len(stage_log)].error)>>
    /\ pc' = "returned"
    /\ UNCHANGED <<pipelineRest, stage_log>>

NextPipeline ==
    \/ StageReturn
    \/ \E e \in StageErrors : StageRaise(e)
    \/ StageLogged
    \/ StageLogRaise
    \/ HandleError

SpecPipeline == InitPipeline /\ [][NextPipeline]_vars

\* ------------------------------------------------------------ the batch
\* the topics file holds at most MaxTopics topics
MaxTopics == 3

\* the topics of the explored files; a file may name a topic twice
TopicNames == {"t1", "t2"}

\* How the work on one topic goes: generate_report returns a result with
\* success True or False, or raises; after a success save_results returns
\* the output path or raises.
TopicRuns ==
    { [generate |-> "success", save |-> "saved"],
      [generate |-> "success", save |-> "raise"],
      [generate |-> "failure", save |-> "none"],
      [generate |-> "raise", save |-> "none"] }

\* no run yet
NoRun == [generate |-> "none", save |-> "none"]

\* lines 38-45
SuccessEntry(topic) == [topic |-> topic, success |-> TRUE]

\* lines 48-52 and 56-60
FailureEntry(topic) == [topic |-> topic, success |-> FALSE]

\* a process_topic without the try block
ProcessTopicNoHandler(topic, run) ==
    IF run.generate = "raise" \/ run.save = "raise" THEN Raised
    ELSE IF run.generate = "failure" THEN Ok(FailureEntry(topic))
    ELSE Ok(SuccessEntry(topic))

\* process_topic: the entry it returns
ProcessTopic(topic, run) ==
    IF run.generate = "raise" THEN Ok(FailureEntry(topic))
    ELSE IF run.generate = "failure" THEN Ok(FailureEntry(topic))
    ELSE IF run.save = "raise" THEN Ok(FailureEntry(topic))
    ELSE Ok(SuccessEntry(topic))

TopicIds == 1..Len(topics)

\* main at line 136: the topics are read, the semaphore is created and
\* gather() has scheduled one bounded_process per topic
InitBatch ==
    /\ pc = "batch"
    /\ topics \in UNION { [1..n -> TopicNames] : n \in 1..MaxTopics }
    /\ concurrent \in 1..MaxLimit
    /\ sem_value = concurrent
    /\ sem_waiters = <<>>
    /\ tstate = [k \in TopicIds |-> "created"]
    /\ adapter_out = [k \in TopicIds |-> NoRun]
    /\ results = [k \in TopicIds |-> Pending]
    /\ overtaken = FALSE
    /\ search_calls = <<>>
    /\ env = [GOOGLE_API_KEY |-> "set", GOOGLE_CSE_ID |-> "set"]
    /\ concurrent_requests = DefaultConcurrentRequests
    /\ max_sources = DefaultMaxSources
    /\ search_queries = <<>>
    /\ session = "none"
    /\ sources = <<>>
    /\ tasks = <<>>
    /\ all_results = <<>>
    /\ unique_results = <<>>
    /\ rank_response = Pending
    /\ ranked_results = <<>>
    /\ filtered_results = <<>>
    /\ synth_input = <<>>
    /\ aggregate = <<>>
    /\ llm_calls = NoCalls
    /\ llm_failed = {}
    /\ report = <<>>
    /\ call = NoCall
    /\ http = NoHttp
    /\ style = "none"
    /\ stage_log = <<>>

batchRest == <<cfgVars, adapterVars, pipeVars, batchVars, planVars, session,
               search_calls, filterVars, aggregate, llmVars, report>>

\* lines 128-129: bounded_process of the next topic runs up to
\* `async with semaphore`
BoundedProcessStart ==
    /\ pc = "batch"
    /\ \E k \in TopicIds :
        /\ tstate[k] = "created"
        /\ \A h \in 1..(k - 1) : tstate[h] # "created"
        /\ IF SemLocked(sem_value, sem_waiters)
           THEN /\ sem_waiters' = Append(sem_waiters, k)
                /\ tstate' = [tstate EXCEPT ![k] = "waiting"]
                /\ UNCHANGED sem_value
           ELSE /\ sem_value' = sem_value - 1
                /\ tstate' = [tstate EXCEPT ![k] = "running"]
                /\ UNCHANGED sem_waiters
    /\ UNCHANGED <<pc, batchRest, adapter_out, results, overtaken>>

\* line 129: a woken bounded_process leaves the waiter list and awaits
\* process_topic
BoundedProcessResume ==
    /\ pc = "batch"
    /\ sem_waiters # <<>>
    /\ tstate[Head(sem_waiters)] = "woken"
    /\ tstate' = [tstate EXCEPT ![Head(sem_waiters)] = "running"]
    /\ sem_waiters' = Tail(sem_waiters)
    /\ UNCHANGED <<pc, batchRest, sem_value, adapter_out, results, overtaken>>

\* lines 130 and 19-60: process_topic of topic k ends, the semaphore is
\* released and gather() stores the outcome
ProcessTopicFinish(k, run) ==
    /\ pc = "batch"
    /\ tstate[k] = "running"
    /\ adapter_out' = [adapter_out EXCEPT ![k] = run]
    /\ results' = StoreResult(results, k, ProcessTopic(topics[k], run))
    /\ overtaken' = (overtaken \/ \E h \in 1..(k - 1) : tstate[h] # "done")
    /\ Release([tstate EXCEPT ![k] = "done"])
    /\ UNCHANGED <<pc, batchRest, sem_waiters>>

\* lines 136-143: gather() returns the list of entries, or raises what a
\* bounded_process raised
BatchGather ==
    /\ pc = "batch"
    /\ GatherReady(results)
    /\ pc' = IF \E k \in TopicIds : results[k].kind = "raise"
             THEN "raised" ELSE "summary"
    /\ UNCHANGED <<batchRest, fanVars>>

NextBatch ==
    \/ BoundedProcessStart
    \/ BoundedProcessResume
    \/ \E k \in TopicIds : \E run \in TopicRuns : ProcessTopicFinish(k, run)
    \/ BatchGather

SpecBatch == InitBatch /\ [][NextBatch]_vars

\* ================================================================== claims
FanoutReturned == session = "closed"

\* the task created for query number qi and source number si
TaskOf(qi, si) == CHOOSE k \in TaskIds : tasks[k] = [qi |-> qi, si |-> si]

\* what the adapter returned for a task: nothing when it raised
Contribution(k) == IF adapter_out[k].kind = "ok" THEN adapter_out[k].val ELSE <<>>

\* C1: during the fan-out of one process call the number of adapter searches
\* that have started and not finished never exceeds concurrent_requests
C1_BoundedConcurrency == Cardinality(Running) <= concurrent_requests

\* the gate is full while further tasks are queued behind it
C1_Witness ==
    /\ Cardinality(Running) = concurrent_requests
    /\ \E k \in TaskIds : tstate[k] = "waiting"
    /\ \E k \in TaskIds : tstate[k] = "done"

\* C2: the merged sequence is the concatenation of the per-task result lists
\* in submission order, query-major and source-minor, whatever the order in
\* which the tasks completed
C2_SubmissionOrder ==
    FanoutReturned =>
        all_results =
            Flatten([qi \in 1..Len(search_queries) |->
                Flatten([si \in 1..Len(sources) |->
                    Contribution(TaskOf(qi, si))])])

\* a later task finished before an earlier one and both contributed records
C2_Witness ==
    /\ FanoutReturned
    /\ overtaken
    /\ Len(search_queries) > 1
    /\ \A k \in TaskIds : adapter_out[k].kind = "ok"

\* C3: a task whose search raises contributes the empty sequence; no task
\* result is an exception, every sibling runs to its end, and the fan-out
\* returns the concatenation of the results of the tasks that succeeded
C3_FailureIsolation ==
    /\ \A k \in TaskIds : results[k].kind # "raise"
    /\ \A k \in TaskIds :
          adapter_out[k].kind = "raise" => results[k] = Ok(<<>>)
    /\ pc = "fanout" => session = "open"
    /\ FanoutReturned =>
          /\ \A k \in TaskIds : tstate[k] = "done" /\ results[k].kind = "ok"
          /\ all_results = Flatten([k \in TaskIds |-> Contribution(k)])

\* some tasks raised, some succeeded, and the fan-out returned the records
\* of those that succeeded
C3_Witness ==
    /\ FanoutReturned
    /\ pc # "raised"
    /\ \E k \in TaskIds : adapter_out[k].kind = "raise"
    /\ \E k \in TaskIds : adapter_out[k].kind = "ok"
    /\ all_results # <<>>

\* C4: one process call starts exactly one adapter search for each element
\* of queries x sources: none is skipped and none is searched twice
C4_OneSearchPerPair ==
    /\ \A k \in TaskIds : search_calls[k] <= 1
    /\ FanoutReturned =>
          \A qi \in 1..Len(search_queries) : \A si \in 1..Len(sources) :
              /\ Cardinality({k \in TaskIds : tasks[k] = [qi |-> qi, si |-> si]}) = 1
              /\ search_calls[TaskOf(qi, si)] = 1
    /\ FanoutReturned => Len(tasks) = Len(search_queries) * Len(sources)

\* the full cross product of two queries and three sources was searched
\* although some of the tasks failed
C4_Witness ==
    /\ FanoutReturned
    /\ Len(search_queries) = 2
    /\ Len(sources) = 3
    /\ \E k \in TaskIds : adapter_out[k].kind = "raise"
    /\ \A k \in TaskIds : search_calls[k] = 1

CountEmptyUrl(rs) == Cardinality({i \in 1..Len(rs) : rs[i].url = NoUrl})

\* C5: deduplication keeps every record whose URL is empty: the output has
\* as many empty-URL records as the input
C5_EmptyUrlKept ==
    (FanoutReturned /\ pc # "raised") =>
        CountEmptyUrl(unique_results) = CountEmptyUrl(all_results)

\* C6: deduplication is idempotent: the pass applied to its own output
\* returns that output
C6_DedupeIdempotent ==
    pc = "filtered" => Dedupe(unique_results) = unique_results

\* the pass dropped a record and kept at least two
C6_Witness ==
    /\ pc = "filtered"
    /\ Len(unique_results) >= 2
    /\ Len(unique_results) < Len(all_results)

\* the positions of rs that hold the first occurrence of a non-empty URL
IsFirstOccurrence(rs, i) ==
    /\ rs[i].url # NoUrl
    /\ \A j \in 1..(i - 1) : rs[j].url # rs[i].url

RECURSIVE FirstOccurrencesFrom(_, _)
FirstOccurrencesFrom(rs, i) ==
    IF i > Len(rs) THEN <<>>
    ELSE (IF IsFirstOccurrence(rs, i) THEN <<rs[i]>> ELSE <<>>)
         \o FirstOccurrencesFrom(rs, i + 1)

RECURSIVE WithUrl(_)
WithUrl(rs) ==
    IF rs = <<>> THEN <<>>
    ELSE (IF Head(rs).url # NoUrl THEN <<Head(rs)>> ELSE <<>>) \o WithUrl(Tail(rs))

\* C7: among the records with a non-empty URL the pass keeps exactly the
\* first occurrence of each URL, in input order
C7_FirstOccurrenceKept ==
    pc = "filtered" => WithUrl(unique_results) = FirstOccurrencesFrom(all_results, 1)

\* a later occurrence of a URL was dropped while two URLs were kept
C7_Witness ==
    /\ pc = "filtered"
    /\ Len(WithUrl(unique_results)) = 2
    /\ \E i, j \in 1..Len(all_results) :
          i < j /\ all_results[i].url = all_results[j].url
          /\ all_results[i].url # NoUrl /\ all_results[i] # all_results[j]

\* C8: the result list of the returned aggregate has at most
\* max_sources_per_query records
C8_CapInvariant ==
    pc = "done" => Len(aggregate[1].raw_results) <= max_sources

\* C9: no two records of the result list of the returned aggregate share a
\* non-empty URL
C9_UniqueUrls ==
    pc = "done" =>
        LET rs == aggregate[1].raw_results
        IN  \A i, j \in 1..Len(rs) :
                (i # j /\ rs[i].url # NoUrl) => rs[i].url # rs[j].url

\* ranking ran and reordered the records of an input that had duplicates
C9_Witness ==
    /\ pc = "done"
    /\ rank_response.kind = "ok"
    /\ ranked_results # unique_results
    /\ Len(WithUrl(all_results)) > Len(unique_results)
    /\ Len(aggregate[1].raw_results) > RankThreshold

\* C10: when the scoring response parses to a number of scores other than
\* the number of records, the ranker returns its input unchanged
C10_MismatchFallback ==
    (pc \in {"synth", "done"} /\ rank_response.kind = "ok") =>
        LET scores == ParseScores(rank_response.val)
        IN  (scores.kind = "ok" /\ Len(scores.val) # Len(unique_results))
                => ranked_results = unique_results

\* the scoring call of this run is over
RankerReturned == rank_response.kind # "pending"

\* the scores the ranker parsed from the response
ParsedScores == ParseScores(rank_response.val)

\* the scoring call raised or an item of its response is not a number
RankFailed ==
    \/ rank_response.kind = "raise"
    \/ rank_response.kind = "ok" /\ ParsedScores.kind = "raise"

\* the response holds exactly one score per record
RankSucceeded ==
    /\ rank_response.kind = "ok"
    /\ ParsedScores.kind = "ok"
    /\ Len(ParsedScores.val) = Len(unique_results)

\* position of a record in the ranker's input (its URLs are distinct)
InputIndex(r) == CHOOSE i \in 1..Len(unique_results) : unique_results[i] = r

ScoreOf(r) == ParsedScores.val[InputIndex(r)]

\* C11: when the scoring call raises or an item of its response does not
\* parse as a number, the ranker does not raise and returns its input in the
\* original order
C11_RankFailureFallback ==
    RankFailed =>
        /\ ranked_results = unique_results
        /\ pc = "raised" => "synth" \in llm_failed

\* the response held an item that is not a number and the run went on
C11_Witness ==
    /\ pc = "synth"
    /\ rank_response.kind = "ok"
    /\ ParsedScores.kind = "raise"
    /\ Len(ranked_results) > RankThreshold

\* C12: the scoring call is issued exactly when the deduplicated sequence has
\* more than 10 records, and then once; with 10 or fewer the deduplicated
\* sequence is returned as it is
C12_RankTrigger ==
    /\ llm_calls.score <= 1
    /\ FanoutReturned =>
          /\ llm_calls.score = 1 <=> Len(unique_results) > RankThreshold
          /\ Len(unique_results) <= RankThreshold =>
                (filtered_results = unique_results /\ ~RankerReturned)

\* eleven deduplicated records: the scoring call was made once
C12_Witness ==
    /\ pc = "done"
    /\ Len(unique_results) = RankThreshold + 1
    /\ llm_calls.score = 1

\* C13: with one score per record the ranker returns a permutation of its
\* input in descending score order, equal scores keeping their input order
C13_StableDescendingSort ==
    (RankerReturned /\ RankSucceeded) =>
        LET n == Len(unique_results)
            idx == [i \in 1..Len(ranked_results) |-> InputIndex(ranked_results[i])]
            score == ParsedScores.val
        IN  /\ Len(ranked_results) = n
            /\ \A i \in 1..n : \E j \in 1..n : ranked_results[j] = unique_results[i]
            /\ \A i \in 1..(n - 1) :
                  \/ score[idx[i]] > score[idx[i + 1]]
                  \/ score[idx[i]] = score[idx[i + 1]] /\ idx[i] < idx[i + 1]

\* the response had ties and the ranker moved records
C13_Witness ==
    /\ RankerReturned
    /\ RankSucceeded
    /\ rank_response = Ok(Ties(Len(unique_results)))
    /\ ranked_results # unique_results

\* C14: when ranking succeeds on more than max_sources_per_query records the
\* aggregate keeps max_sources_per_query of them, none of which scores below
\* a dropped one
C14_TopScoresKept ==
    (pc = "done" /\ RankSucceeded /\ Len(unique_results) > max_sources) =>
        LET kept == aggregate[1].raw_results
            keptSet == Range(kept)
        IN  /\ Len(kept) = max_sources
            /\ keptSet \subseteq Range(unique_results)
            /\ \A d \in Range(unique_results) \ keptSet :
                  \A k \in keptSet : ScoreOf(k) >= ScoreOf(d)

\* records with different scores were ranked and some were cut off
C14_Witness ==
    /\ pc = "done"
    /\ RankSucceeded
    /\ rank_response = Ok(Ascending(Len(unique_results)))
    /\ Len(unique_results) > max_sources
    /\ Len(aggregate[1].raw_results) = max_sources

\* C15: when the query-expansion call fails the planner does not raise and
\* returns the query set that holds only the topic
C15_PlanFailureFallback ==
    "expand" \in llm_failed => (pc # "raised" /\ search_queries = <<Topic>>)

\* C16: the query set the planner returns has between 1 and 7 entries and
\* contains the topic
C16_TopicPresent ==
    pc = "planned" =>
        /\ Len(search_queries) \in 1..MaxQueries
        /\ Topic \in Range(search_queries)

\* C17: the query set the planner returns holds no two equal strings
C17_NoRepeatedQuery ==
    pc = "planned" =>
        \A i, j \in 1..Len(search_queries) :
            i # j => search_queries[i] # search_queries[j]

\* C18: when the synthesis call fails process raises without an aggregate
\* and without a second synthesis call, and generate_report returns a result
\* with success = False and an error message
C18_SynthesisFailureIsFatal ==
    "synth" \in llm_failed =>
        /\ pc = "raised"
        /\ aggregate = <<>>
        /\ llm_calls.synth = 1
        /\ report # <<>> => (report[1].success = FALSE /\ report[1].error # "")

\* the synthesis call failed after a completed fan-out and generate_report
\* has returned
C18_Witness ==
    /\ "synth" \in llm_failed
    /\ filtered_results # <<>>
    /\ report # <<>>

\* C19: process raises only when the synthesis call failed
C19_OnlySynthesisRaises ==
    pc = "raised" => "synth" \in llm_failed

\* C20: whatever goes wrong during a search of the Google, ArXiv or
\* Wikipedia adapter, the search returns a list and raises nothing
C20_AdaptersNeverRaise ==
    pc = "searched" => adapter_out[1].kind = "ok"

\* an exception left the try block of a search, which then returned
C20_Witness ==
    /\ pc = "searched"
    /\ SearchBroke(call, http)
    /\ adapter_out[1].kind = "ok"

\* C21: a Google or ArXiv search in which an exception occurred returns the
\* empty sequence
C21_ErrorGivesEmpty ==
    (/\ pc = "searched"
     /\ call.source \in {"google", "arxiv"}
     /\ SearchBroke(call, http)) => adapter_out[1].val = <<>>

\* the titles a Wikipedia search works through: the first max_results
\* candidates of the opensearch answer
Candidates == Take(http.items, call.max_results)

\* a Wikipedia search whose first request succeeded and whose candidate
\* titles are all strings
WikipediaLoopRan ==
    /\ pc = "searched"
    /\ call.source = "wikipedia"
    /\ http.first = "ok"
    /\ \A i \in 1..Len(Candidates) : Candidates[i] # "broken"

\* the candidates whose summary request succeeded
Successful == {i \in 1..Len(Candidates) : Candidates[i] \in {"ok", "nourl"}}

\* C22: in a Wikipedia search a failed summary request skips only its own
\* candidate: the summary of every one of the first max_results titles is
\* requested, and the records returned are those of the candidates whose
\* request succeeded, in candidate order
C22_FetchFailureSkipsOne ==
    WikipediaLoopRan =>
        LET rs == adapter_out[1].val
        IN  /\ WikipediaFetched(Candidates, 1, <<>>)
                 = [i \in 1..Len(Candidates) |-> i]
            /\ {rs[j].title : j \in 1..Len(rs)} = Successful
            /\ \A j, k \in 1..Len(rs) : j < k => rs[j].title < rs[k].title

\* a summary request failed and a later candidate still gave a record
C22_Witness ==
    /\ WikipediaLoopRan
    /\ \E i \in 1..Len(Candidates) :
          /\ Candidates[i] = "fetcherror"
          /\ \E j \in 1..Len(adapter_out[1].val) : adapter_out[1].val[j].title > i

\* both credentials are set and non-empty
CredentialsSet ==
    /\ env.GOOGLE_API_KEY \notin {"None", ""}
    /\ env.GOOGLE_CSE_ID \notin {"None", ""}

\* C23: the source list holds the Google adapter exactly when both
\* credentials are set and non-empty, it always holds the ArXiv and the
\* Wikipedia adapter, and its order is Google (when present), ArXiv, Wikipedia
C23_SourceList ==
    pc = "tasked" =>
        sources = IF CredentialsSet THEN <<"google", "arxiv", "wikipedia">>
                  ELSE <<"arxiv", "wikipedia">>

\* one credential is the empty string, the other is set, and the sources
\* were created without the Google adapter
C23_Witness ==
    /\ pc = "tasked"
    /\ env.GOOGLE_API_KEY = "set"
    /\ env.GOOGLE_CSE_ID = ""
    /\ Len(sources) = 2

\* the sum of the values of a mapping with natural values
RECURSIVE SumOver(_, _)
SumOver(f, keys) ==
    IF keys = {} THEN 0
    ELSE LET k == CHOOSE x \in keys : TRUE
         IN  f[k] + SumOver(f, keys \ {k})

\* C24: in the returned aggregate sources_breakdown maps every source tag of
\* the result list to the number of records carrying it; every count is
\* positive, the counts sum to source_count, and source_count is the length
\* of the result list
C24_SourcesBreakdown ==
    aggregate # <<>> =>
        LET a == aggregate[1]
            rs == a.raw_results
            b == a.sources_breakdown
        IN  /\ a.source_count = Len(rs)
            /\ DOMAIN b = {rs[i].source : i \in 1..Len(rs)}
            /\ \A s \in DOMAIN b :
                  /\ b[s] = Cardinality({i \in 1..Len(rs) : rs[i].source = s})
                  /\ b[s] > 0
            /\ SumOver(b, DOMAIN b) = a.source_count

\* an aggregate was returned whose results come from two sources and do not
\* include the Google adapter
C24_Witness ==
    /\ aggregate # <<>>
    /\ DOMAIN aggregate[1].sources_breakdown = {"arxiv", "wikipedia"}
    /\ \E s \in DOMAIN aggregate[1].sources_breakdown :
          aggregate[1].sources_breakdown[s] > 1

\* C25: the synthesis call receives at most 15 records, the first
\* min(15, n) records of the final result list in order, whatever
\* max_sources_per_query is
C25_SynthesisInputPrefix ==
    llm_calls.synth = 1 =>
        /\ Len(synth_input) <= SynthesisLimit
        /\ Len(synth_input) = Min(SynthesisLimit, Len(filtered_results))
        /\ \A i \in 1..Len(synth_input) : synth_input[i] = filtered_results[i]

\* the synthesis call was issued for a final list longer than 15 under a cap
\* above 15
C25_Witness ==
    /\ llm_calls.synth = 1
    /\ max_sources > SynthesisLimit
    /\ Len(filtered_results) > SynthesisLimit
    /\ Len(synth_input) = SynthesisLimit

\* the stages of process in their order; a raise leaves the order
StageRank(stage) ==
    IF stage = "plan" THEN 1
    ELSE IF stage = "fanout" THEN 2
    ELSE IF stage = "rank" THEN 3
    ELSE IF stage = "synth" THEN 4
    ELSE 5

\* no search task exists while the query set is being planned, and once a
\* scoring or synthesis call has been issued every search task has finished
\* and the merged list has been deduplicated
StagesApart ==
    /\ pc = "plan" => (tasks = <<>> /\ search_queries = <<>>)
    /\ (llm_calls.score > 0 \/ llm_calls.synth > 0) =>
          /\ \A k \in TaskIds : tstate[k] = "done" /\ search_calls[k] = 1
          /\ unique_results = Dedupe(all_results)
    /\ llm_calls.synth > 0 =>
          (llm_calls.score > 0 <=> rank_response.kind # "pending")

\* a step never goes back to an earlier stage, never changes the query set
\* once the fan-out has begun, and starts a search only during the fan-out
StagesForward ==
    /\ StageRank(pc) <= StageRank(pc')
    /\ pc # "plan" => search_queries' = search_queries
    /\ (\E k \in DOMAIN search_calls' :
            /\ search_calls'[k] > 0
            /\ k \in DOMAIN search_calls => search_calls'[k] > search_calls[k])
          => (pc = "fanout" /\ search_queries # <<>>)

\* C26: within one process call the stages run in the order planning,
\* fan-out, deduplication, ranking, synthesis: no search task starts before
\* the query set is complete, and no scoring or synthesis call is issued
\* while a search task is running or queued
C26_StagesInOrder == []StagesApart /\ [][StagesForward]_vars

\* process returned after a fan-out with more tasks than slots, in which
\* tasks finished out of submission order, and after a scoring call
C26_Witness ==
    /\ pc = "done"
    /\ Len(tasks) > concurrent_requests
    /\ overtaken
    /\ llm_calls.score = 1

\* task k has been built and has not been admitted through the gate yet
Queued(k) == k \in TaskIds /\ tstate[k] \in {"created", "waiting", "woken"}

\* task k has been admitted: its adapter call was started
Admitted(k) == k \in TaskIds /\ tstate[k] \in {"running", "done"}

\* C27: when every adapter call returns or raises, every search task that
\* waits for the gate is admitted in the end and the fan-out completes, for
\* every concurrency limit from 1 on and also when admitted tasks fail
C27_FanoutCompletes ==
    /\ \A k \in 1..(MaxQueries * 3) : Queued(k) ~> Admitted(k)
    /\ (pc = "fanout") ~> (session = "closed")

\* under a limit of 1 a task that had to wait was admitted after an earlier
\* adapter call raised, and the fan-out is over
C27_Witness ==
    /\ session = "closed"
    /\ concurrent_requests = 1
    /\ \E h, k \in TaskIds :
          /\ h < k
          /\ adapter_out[h].kind = "raise"
          /\ tstate[k] = "done"

\* no session exists before the tasks do, a closed session means that every
\* search task has finished, and nothing of deduplication, ranking or
\* synthesis exists while the session is open
SessionCoversFanout ==
    /\ session = "none" => tasks = <<>>
    /\ session = "closed" => \A k \in TaskIds : tstate[k] = "done"
    /\ session # "closed" =>
          /\ pc \in {"plan", "fanout", "raised"}
          /\ unique_results = <<>>
          /\ llm_calls.score = 0
          /\ llm_calls.synth = 0

\* a closed session stays closed and no adapter call is started under it
ClosedSessionUnused ==
    session = "closed" => (session' = "closed" /\ search_calls' = search_calls)

\* C28: the session process opens is closed only after every search task has
\* finished: no adapter call is in flight or started once it is closed, and
\* it is closed before deduplication, ranking and synthesis begin
C28_SessionOutlivesSearches == []SessionCoversFanout /\ [][ClosedSessionUnused]_vars

\* the session was closed after a fan-out with more tasks than slots and the
\* scoring call is out
C28_Witness ==
    /\ session = "closed"
    /\ pc = "rank"
    /\ Len(tasks) > concurrent_requests
    /\ \E k \in TaskIds : adapter_out[k].kind = "raise"

\* the stages started so far, in the order they were started
RECURSIVE StartedFrom(_)
StartedFrom(i) ==
    IF i > Len(stage_log) THEN <<>>
    ELSE IF stage_log[i].event = "start"
         THEN <<stage_log[i].stage>> \o StartedFrom(i + 1)
         ELSE StartedFrom(i + 1)

\* the stages that have returned
ReturnedStages ==
    {stage_log[i].stage :
        i \in {j \in 1..Len(stage_log) : stage_log[j].event = "return"}}

\* the positions of the log at which a stage, or the log line after it,
\* raised
RaisePositions ==
    {i \in 1..Len(stage_log) : stage_log[i].event \in {"raise", "lograise"}}

\* C29: generate_report runs research, planning, visualization and
\* generation in that order, each stage starting only after the previous one
\* returned; once a stage raised no further stage starts and the result has
\* success = False with the error text; success = True is returned only when
\* all four stages returned; generate_report always returns a result
C29_StagesThenResult ==
    /\ StartedFrom(1) = Take(Stages, Len(StartedFrom(1)))
    /\ \A i \in 1..Len(stage_log) :
          (stage_log[i].event = "start" /\ i > 1) =>
              stage_log[i - 1].event = "return"
    /\ \A i \in RaisePositions : i = Len(stage_log)
    /\ pc = "returned" =>
          /\ report # <<>>
          /\ RaisePositions # {} =>
                /\ report[1].success = FALSE
                /\ report[1].error = stage_log[Len(stage_log)].error
          /\ report[1].success = TRUE => ReturnedStages = Range(Stages)
    /\ pc # "returned" => report = <<>>

\* planning raised after research returned and generate_report returned the
\* failure result
C29_Witness ==
    /\ pc = "returned"
    /\ report[1].success = FALSE
    /\ StartedFrom(1) = <<"research", "planning">>
    /\ stage_log[Len(stage_log)].event = "raise"
    /\ stage_log[Len(stage_log)].error = LlmError

\* the work on topic k ended well: the report was generated and saved
RunSucceeded(k) == adapter_out[k] = [generate |-> "success", save |-> "saved"]

\* C30: the batch run yields exactly one entry per topic, in the order of
\* the topics file whatever order the generations complete in; a topic whose
\* generation fails or raises yields an entry with success = False, and the
\* other topics are neither cancelled nor failed by it
C30_OneEntryPerTopic ==
    /\ pc # "raised"
    /\ pc = "summary" =>
          /\ Len(results) = Len(topics)
          /\ \A k \in TopicIds :
                /\ tstate[k] = "done"
                /\ results[k].kind = "ok"
                /\ results[k].val.topic = topics[k]
                /\ results[k].val.success = RunSucceeded(k)

\* the batch is over with more topics than workers; a later topic finished
\* before an earlier one, one generation raised and another topic succeeded
C30_Witness ==
    /\ pc = "summary"
    /\ Len(topics) > concurrent
    /\ overtaken
    /\ topics[1] # topics[2]
    /\ \E h, k \in TopicIds :
          /\ adapter_out[h].generate = "raise"
          /\ RunSucceeded(k)

====
